---- MODULE Spec2Model ----
(***************************************************************************)
(* Model of gofmt.py: the formatting pipeline (Command, Formatter), the    *)
(* diagnostic mapper (Error.parse_stderr) and run_formatter with the       *)
(* per-view error cache view_errors.                                       *)
(*                                                                         *)
(* Text is a sequence of code points, bytes a sequence of 0..255.  A       *)
(* Python value is a record [t |-> "str" | "bytes", v |-> sequence].       *)
(* A region is [a |-> begin, b |-> end], half open, 0-based.               *)
(***************************************************************************)
EXTENDS Integers, Sequences, FiniteSets, TLC

\* Number of run_formatter calls explored in one behaviour.
MaxAttempts == 2

Views == {1, 2}

NoEntry == "NoEntry"   \* view.id() not in view_errors
None == "None"

Str(v) == [t |-> "str", v |-> v]
Bytes(v) == [t |-> "bytes", v |-> v]
Region(a, b) == [a |-> a, b |-> b]

Min(x, y) == IF x < y THEN x ELSE y
Max(x, y) == IF x > y THEN x ELSE y

------------------------------------------------------------------------------
(* Encoding: str.encode() and bytes.decode(encoding).                       *)

IsCont(x) == x >= 128 /\ x < 192   \* a continuation byte
IsLead(x) == x >= 194 /\ x < 224   \* the first byte of a two-byte sequence

\* str.encode(): UTF-8, for code points below 0x800 (one or two bytes each).
encode(s) ==
    LET wide == {j \in 1..Len(s) : s[j] >= 128}
        Off(i) == (i - 1) + Cardinality({j \in wide : j < i})  \* bytes before s[i]
        n == Len(s) + Cardinality(wide)
        out == [k \in 1..n |->
                  LET i == CHOOSE x \in 1..Len(s) :
                               Off(x) < k /\ k <= Off(x) + (IF s[x] < 128 THEN 1 ELSE 2)
                  IN IF s[i] < 128 THEN s[i]
                     ELSE IF k = Off(i) + 1 THEN 192 + (s[i] \div 64)
                     ELSE 128 + (s[i] % 64)]
    IN SubSeq(out, 1, n)

\* bytes.decode('utf-8'): [ok, v]; ok = FALSE is UnicodeDecodeError.
decode_utf8(b) ==
    LET conts == {j \in 1..Len(b) : IsCont(b[j])}
        valid == \A i \in 1..Len(b) :
                    \/ b[i] < 128
                    \/ IsLead(b[i]) /\ i < Len(b) /\ IsCont(b[i + 1])
                    \/ IsCont(b[i]) /\ i > 1 /\ IsLead(b[i - 1])
        \* index of the first byte of the k-th character
        At(k) == CHOOSE i \in k..Len(b) :
                     i \notin conts /\ i - Cardinality({j \in conts : j < i}) = k
        n == Len(b) - Cardinality(conts)
        out == [k \in 1..n |->
                  IF b[At(k)] < 128 THEN b[At(k)]
                  ELSE (b[At(k)] - 192) * 64 + (b[At(k) + 1] - 128)]
    IN IF ~valid THEN [ok |-> FALSE, v |-> <<>>]
       ELSE [ok |-> TRUE, v |-> SubSeq(out, 1, n)]

\* The names view.encoding() returns that Python knows as a codec.
IsUtf8Codec(enc) == enc \in {"utf-8", "UTF-8"}

\* code.decode(self.encoding): [ok, exc, v].  A str has no decode method
\* (AttributeError); a name that is no Python codec is a LookupError.
decode(code, enc) ==
    IF code.t = "str" THEN [ok |-> FALSE, exc |-> "AttributeError", v |-> <<>>]
    ELSE IF ~IsUtf8Codec(enc) THEN [ok |-> FALSE, exc |-> "LookupError", v |-> <<>>]
    ELSE LET r == decode_utf8(code.v)
         IN IF r.ok THEN [ok |-> TRUE, exc |-> None, v |-> r.v]
            ELSE [ok |-> FALSE, exc |-> "UnicodeDecodeError", v |-> <<>>]

------------------------------------------------------------------------------
(* The editor buffer API used by the plugin (sublime.View).                 *)

size(buf) == Len(buf)

\* view.substr(region)
substr(buf, r) == SubSeq(buf, Min(r.a, Len(buf)) + 1, Min(r.b, Len(buf)))

\* view.replace(edit, region, text)
replace(buf, r, text) ==
    SubSeq(buf, 1, Min(r.a, Len(buf))) \o text
        \o SubSeq(buf, Min(r.b, Len(buf)) + 1, Len(buf))

\* Offsets (0-based) at which a line of the buffer starts.
LineStarts(buf) == {0} \cup {i \in 1..Len(buf) : buf[i] = 10}

\* view.rowcol(point): <<row, col>>, both 0-based.
rowcol(buf, pt) ==
    LET p == Max(0, Min(pt, Len(buf)))
        before == {s \in LineStarts(buf) : s <= p}
        start == CHOOSE s \in before : \A o \in before : o <= s
    IN <<Cardinality(before) - 1, p - start>>

\* Number of rows of the buffer and length of one row.
Rows(buf) == Cardinality(LineStarts(buf))
RowStart(buf, row) ==
    LET starts == LineStarts(buf)
    IN CHOOSE s \in starts : Cardinality({o \in starts : o < s}) = row
\* view.line(point).end()
line_end(buf, pt) ==
    LET p == Max(0, Min(pt, Len(buf)))
        ends == {i \in p..Len(buf) : i = Len(buf) \/ buf[i + 1] = 10}
    IN CHOOSE e \in ends : \A o \in ends : e <= o
RowLen(buf, row) == line_end(buf, RowStart(buf, row)) - RowStart(buf, row)

\* view.text_point(row, col): the offset of the row's start plus col, kept
\* inside the buffer; a row past the last one is the end of the buffer.
text_point(buf, row, col) ==
    LET base == IF row < 0 THEN 0
                ELSE IF row >= Rows(buf) THEN Len(buf)
                ELSE RowStart(buf, row)
    IN Max(0, Min(base + col, Len(buf)))

------------------------------------------------------------------------------
(* Error.parse_stderr and its helpers.                                      *)

IsDigit(c) == c >= 48 /\ c <= 57
\* \s of the regular expression
IsSpace(c) == c \in {9, 10, 11, 12, 13, 32}

\* str.splitlines(): lines end at \n, \r or \r\n; no empty last line.
RECURSIVE splitlines(_)
splitlines(s) ==
    IF s = <<>> THEN <<>>
    ELSE LET brk == {i \in 1..Len(s) : s[i] \in {10, 13}}
         IN IF brk = {} THEN <<s>>
            ELSE LET i == CHOOSE x \in brk : \A y \in brk : x <= y
                     n == IF s[i] = 13 /\ i < Len(s) /\ s[i + 1] = 10
                          THEN i + 1 ELSE i
                 IN <<SubSeq(s, 1, i - 1)>> \o splitlines(SubSeq(s, n + 1, Len(s)))

\* str.replace(old, new), old not empty: every occurrence, left to right.
RECURSIVE str_replace(_, _, _)
str_replace(s, old, new) ==
    LET occ == {i \in 1..(Len(s) - Len(old) + 1) :
                   s[i] = old[1] /\ SubSeq(s, i, i + Len(old) - 1) = old}
    IN IF occ = {} THEN s
       ELSE LET i == CHOOSE x \in occ : \A y \in occ : x <= y
            IN SubSeq(s, 1, i - 1) \o new
                   \o str_replace(SubSeq(s, i + Len(old), Len(s)), old, new)

\* os.path.basename
basename(path) ==
    LET seps == {i \in 1..Len(path) : path[i] = 47}
        last == IF seps = {} THEN 0 ELSE CHOOSE i \in seps : \A j \in seps : j <= i
    IN SubSeq(path, last + 1, Len(path))

\* os.path.dirname
dirname(path) ==
    LET seps == {i \in 1..Len(path) : path[i] = 47}
        last == IF seps = {} THEN 0 ELSE CHOOSE i \in seps : \A j \in seps : j <= i
    IN SubSeq(path, 1, last - 1)

\* int() of a run of decimal digits
RECURSIVE int(_)
int(d) ==
    IF d = <<>> THEN 0
    ELSE int(SubSeq(d, 1, Len(d) - 1)) * 10 + (d[Len(d)] - 48)

\* Index of the last digit of the run of digits starting at p (p - 1: none).
DigitsEnd(s, p) ==
    LET stop == {q \in p..Len(s) : ~IsDigit(s[q])}
    IN IF stop = {} THEN Len(s)
       ELSE (CHOOSE q \in stop : \A o \in stop : q <= o) - 1

\* Whether ':(\d+):(\d+):\s+(.*)\Z' matches s from the colon at index i.
MatchAt(s, i) ==
    /\ s[i] = 58
    /\ LET j == DigitsEnd(s, i + 1) + 1
       IN /\ j > i + 1 /\ j <= Len(s) /\ s[j] = 58
          /\ LET k == DigitsEnd(s, j + 1) + 1
             IN /\ k > j + 1 /\ k <= Len(s) /\ s[k] = 58
                /\ k + 1 <= Len(s) /\ IsSpace(s[k + 1])

\* Error.line_re.match(raw_text): [matched, g1, g2, g3].  The leading '.*'
\* is greedy, so the groups are taken at the last colon that fits.
line_re_match(s) ==
    LET at == {i \in {x \in 1..Len(s) : s[x] = 58} : MatchAt(s, i)}
    IN IF at = {} \/ \E x \in 1..Len(s) : s[x] = 10
       THEN [matched |-> FALSE, g1 |-> <<>>, g2 |-> <<>>, g3 |-> <<>>]
       ELSE LET i == CHOOSE x \in at : \A y \in at : y <= x
                j == DigitsEnd(s, i + 1) + 1
                k == DigitsEnd(s, j + 1) + 1
                stop == {q \in (k + 1)..Len(s) : ~IsSpace(s[q])}
                e == IF stop = {} THEN Len(s)    \* the last space of '\s+'
                     ELSE (CHOOSE q \in stop : \A o \in stop : q <= o) - 1
            IN [matched |-> TRUE,
                g1 |-> SubSeq(s, i + 1, j - 1),
                g2 |-> SubSeq(s, j + 1, k - 1),
                g3 |-> SubSeq(s, e + 1, Len(s))]

\* The placeholder the tools print for their standard input.
StandardInput ==   \* '<standard input>'
    <<60, 115, 116, 97, 110, 100, 97, 114, 100, 32, 105, 110, 112, 117, 116, 62>>
AnonymousBuffer == \* '<anonymous buffer>'
    <<60, 97, 110, 111, 110, 121, 109, 111, 117, 115, 32, 98, 117, 102, 102, 101, 114, 62>>

\* row = int(match.group(1)) - 1; row += region_row
MapRow(r, region_row) == (r - 1) + region_row

\* col = int(match.group(2)) - 1; if row == 0: col += region_col
MapCol_always(r, c, region_col) == (c - 1) + region_col
MapCol(r, c, region_col) == IF r - 1 = 0 THEN (c - 1) + region_col ELSE c - 1

\* One Error(text, sublime.Region(a, b), row, col, fn) of the loop body.
MakeError(buf, m, region_row, region_col, fn) ==
    LET row == MapRow(int(m.g1), region_row)
        col == MapCol(int(m.g1), int(m.g2), region_col)
        a == text_point(buf, row, col)
        b == line_end(buf, a)
    IN [text |-> m.g3, region |-> Region(a, b), row |-> row, col |-> col,
        filename |-> fn]

RECURSIVE ParseLines(_, _, _, _, _)
ParseLines_untilMismatch(lines, buf, region_row, region_col, fn) ==
    IF lines = <<>> \/ ~line_re_match(Head(lines)).matched THEN <<>>
    ELSE <<MakeError(buf, line_re_match(Head(lines)), region_row, region_col, fn)>>
ParseLines(lines, buf, region_row, region_col, fn) ==
    IF lines = <<>> THEN <<>>
    ELSE LET m == line_re_match(Head(lines))
             rest == ParseLines(Tail(lines), buf, region_row, region_col, fn)
         IN IF m.matched
            THEN <<MakeError(buf, m, region_row, region_col, fn)>> \o rest
            ELSE rest

\* Error.parse_stderr(stderr, region, view): [ok, errors]; ok = FALSE is the
\* UnicodeDecodeError of stderr.decode('utf-8').  file_name is None for a
\* buffer without a file.
parse_stderr(stderr, region, buf, file_name) ==
    LET rc == rowcol(buf, region.a)
        d == decode_utf8(stderr)
        fn == IF file_name # None THEN basename(file_name) ELSE AnonymousBuffer
        text == IF file_name # None THEN str_replace(d.v, StandardInput, fn) ELSE d.v
    IN IF ~d.ok THEN [ok |-> FALSE, errors |-> <<>>]
       ELSE [ok |-> TRUE,
             errors |-> ParseLines(splitlines(text), buf, rc[1], rc[2], fn)]

------------------------------------------------------------------------------
(* Inputs: the buffers, the settings and what the external tools answer.    *)

\* view.file_name(): view 1 is '/p/m.go', view 2 has no file.
file_name(v) == IF v = 1 THEN <<47, 112, 47, 109, 46, 103, 111>> ELSE None

\* guess_cwd(view); views without a file are in a window without folders.
guess_cwd(v) == IF file_name(v) # None THEN dirname(file_name(v)) ELSE None

SmallBuffer == <<97, 98, 10, 99, 100>>                \* 'ab\ncd'
AccentBuffer == <<233, 10>>                           \* 'e-acute\n'
DeepBuffer ==                                         \* row 10 is 'aaaaaaaaab'
    [i \in 1..10 |-> 10] \o [i \in 1..9 |-> 97] \o <<98, 10, 99, 100, 101>>

\* The buffers and encodings a view may start with.
Buffers(v) == IF v = 1 THEN {SmallBuffer, DeepBuffer} ELSE {AccentBuffer}
Encodings(v) == IF v = 1 THEN {"UTF-8", "Western (Windows 1252)"} ELSE {"Undefined"}

\* Values of the 'cmds' setting.
Pipelines ==
    { <<>>,
      << <<"gofmt", "-e", "-s">> >>,
      << <<"goimports">>, <<"gofmt", "-s">> >> }

\* Region lists run_formatter is called with: the whole buffer (GofmtCommand)
\* or a selection that starts inside a line, alone or after a first region.
SelectionStart(buf) == IF Len(buf) > 18 THEN 18 ELSE 1
Selections(buf) ==
    { <<Region(SelectionStart(buf), Len(buf))>>,
      <<Region(0, SelectionStart(buf)), Region(SelectionStart(buf), Len(buf))>> }

\* What a formatter writes for a text it accepts: the text, ending in a
\* newline.
Formatted(stdin) ==
    IF stdin # <<>> /\ stdin[Len(stdin)] = 10 THEN stdin ELSE stdin \o <<10>>

Diag(r, c, msg) == StandardInput \o <<58, 48 + r, 58, 48 + c, 58, 32, msg, 10>>
Diagnostics ==        \* a banner line and four diagnostics:
    \* 'a:1: b\r\n', '<standard input>:1:5: x', ':1:3: y', ':2:3: z',
    \* 'm.go:12:10:  w'
    <<97, 58, 49, 58, 32, 98, 13, 10>>
        \o Diag(1, 5, 120) \o Diag(1, 3, 121) \o Diag(2, 3, 122)
        \o <<109, 46, 103, 111, 58, 49, 50, 58, 49, 48, 58, 32, 32, 119>>
BannerOnly ==         \* 'exit 2\n', no diagnostic line
    <<101, 120, 105, 116, 32, 50, 10>>

Answer(stdout, stderr, return_code) ==
    [stdout |-> stdout, stderr |-> stderr, return_code |-> return_code]

\* What an external tool may answer to a given stdin: (stdout, stderr, exit
\* code).  It accepts the input (leaving it as it is, reformatting it, or
\* writing bytes that are not UTF-8), or it rejects it.
Answers(stdin) ==
    { Answer(stdin, <<>>, 0),
      Answer(Formatted(stdin), <<>>, 0),
      Answer(<<255>>, <<>>, 0),
      Answer(<<>>, <<>>, 2),
      Answer(stdin, Diagnostics, 0),
      Answer(<<>>, Diagnostics, 2),
      Answer(<<120>>, BannerOnly, 2),
      Answer(<<>>, <<255>>, 2) }

------------------------------------------------------------------------------
VARIABLES
    buf,          \* [Views -> text]: the buffers
    encoding,     \* [Views -> view.encoding()]
    cmds_setting, \* settings.get('cmds')
    view_errors,  \* [Views -> NoEntry or list of Error]: the module's dict
    status,       \* [Views -> view status 'gofmt']: <<>> ('') or <<name, return_code>>
    marks,        \* [Views -> regions added under key 'gofmt']
    panel,        \* the window's output panel 'gofmt': [exists, text, hidden]
    pc,           \* where the plugin is: idle, or in run_formatter (construct,
                  \* format, cmd, replace, done), or in on_hover (hover)
    attempts,     \* run_formatter calls so far
    cur,          \* the view run_formatter works on
    regions,      \* its regions argument
    ri,           \* index of the region of the for loop
    formatter,    \* the Formatter: [encoding, cmds], None before it is built
    resolved,     \* names of the commands golangconfig resolved for this call
    ci,           \* index of the command of the loop of format
    code,         \* the local 'code' of format
    replacement,  \* the local 'replacement' of run_formatter
    pre,          \* the buffer's text when run_formatter was called
    log,          \* the subprocesses run by this call, in order
    calls,        \* the view.replace calls of this call, in order
    returned,     \* what format calls of this call returned, in order
    outcome,      \* how the call ended: None, ok, FormatterError, Exception
    dialog,       \* the exception shown by sublime.error_message, or None
    go_source,    \* [Views -> BOOLEAN]: the view's scope at 0 is source.go
    hover,        \* the on_hover event being handled: [view, point, zone], or None
    popup         \* what view.show_popup was called with: [shown, location, html]

vars == <<buf, encoding, cmds_setting, view_errors, status, marks, panel, pc,
          attempts, cur, regions, ri, formatter, resolved, ci, code,
          replacement, pre, log, calls, returned, outcome, dialog,
          go_source, hover, popup>>

ui == <<go_source, hover, popup>>
NoPopup == [shown |-> FALSE, location |-> 0, html |-> <<>>]
display == <<status, marks, panel>>
NoPanel == [exists |-> FALSE, text |-> <<>>, hidden |-> FALSE]

Init ==
    /\ buf \in {f \in [Views -> UNION {Buffers(v) : v \in Views}] :
                  \A v \in Views : f[v] \in Buffers(v)}
    /\ encoding \in {f \in [Views -> UNION {Encodings(v) : v \in Views}] :
                       \A v \in Views : f[v] \in Encodings(v)}
    /\ cmds_setting \in Pipelines
    /\ view_errors = [v \in Views |-> NoEntry]
    /\ status = [v \in Views |-> <<>>]
    /\ marks = [v \in Views |-> <<>>]
    /\ panel = NoPanel
    /\ pc = "idle"
    /\ attempts = 0
    /\ cur = None /\ regions = <<>> /\ ri = 0 /\ formatter = None /\ ci = 0
    /\ resolved = <<>>
    /\ code = None /\ replacement = None /\ pre = None
    /\ log = <<>> /\ calls = <<>> /\ returned = <<>>
    /\ outcome = None /\ dialog = None
    /\ go_source = [v \in Views |-> TRUE]
    /\ hover = None
    /\ popup = NoPopup

------------------------------------------------------------------------------
(* Helpers of the actions.                                                  *)

\* Command.__init__: name, args and the path golangconfig resolves.
Command(cmd) ==
    [name |-> Head(cmd), args |-> Tail(cmd), path |-> <<"/go/bin", Head(cmd)>>]

\* The argument vector Command.run gives to subprocess.Popen.
Argv(c) == <<c.path>>

\* Command.run: what is written to the process's stdin.
Stdin(c) == IF c.t = "str" THEN encode(c.v) ELSE c.v

\* Formatter.format: 'if stderr or return_code != 0'
CommandFailed_returnCodeOnly(stderr, return_code) == return_code # 0
CommandFailed(stderr, return_code) == stderr # <<>> \/ return_code # 0

\* Formatter.format: 'code, stderr, return_code = cmd.run(code)' makes the
\* stdout of a command the input of the next one.
NextCode_regionText(c, stdout) == c
NextCode(c, stdout) == Bytes(stdout)

\* run_formatter: 'if view.id() in view_errors: del view_errors[view.id()]'
DropEntry_keep(cache, v) == cache
DropEntry(cache, v) == [cache EXCEPT ![v] = NoEntry]

\* run_formatter: 'if view.substr(region) != replacement'
MustReplace_always(current, new) == TRUE
MustReplace(current, new) == current # new

\* Formatter._clear_errors on one of the view's displays (status, marks):
\* set_status('gofmt', '') and erase_regions('gofmt').
Cleared_not(shown, v) == shown
Cleared(shown, v) == [shown EXCEPT ![v] = <<>>]

\* Formatter.__init__: 'Undefined' falls back to utf-8.
FormatterEncoding(enc) == IF enc = "Undefined" THEN "utf-8" ELSE enc

\* Formatter.__init__, line 166: the list of Commands is built in order, so
\* a resolution that fails (failing, 0: none does) is preceded by the
\* resolutions of the commands before it and followed by none.
ResolvedBefore(cmds, failing) ==
    [i \in 1..(IF failing = 0 THEN Len(cmds) ELSE failing - 1) |-> Head(cmds[i])]

\* The error golangconfig.subprocess_info raises in Command.__init__ leaves
\* Formatter.__init__ and the try block of run_formatter.
ConstructionFails_never(failing) == FALSE
ConstructionFails(failing) == failing # 0

\* "except Exception: sublime.error_message(traceback.format_exc())"
Raise_unshown(exc) ==
    /\ dialog' = dialog
    /\ outcome' = "Exception"
    /\ pc' = "done"
Raise(exc) ==
    /\ dialog' = exc
    /\ outcome' = "Exception"
    /\ pc' = "done"

------------------------------------------------------------------------------
(* run_formatter, one step at a time.  The call runs on the editor's UI     *)
(* thread: nothing else happens between its steps.                          *)

\* is_go_source(view): view.score_selector(0, 'source.go') != 0.  It is also
\* GofmtCommand.is_enabled.
is_go_source(v) == go_source[v]

\* Lines 251-255: the cache entry is deleted and the try block entered.
run_formatter(v, regs) ==
    /\ pc = "idle"
    /\ UNCHANGED ui
    /\ attempts < MaxAttempts
    /\ attempts' = attempts + 1
    /\ view_errors' = DropEntry(view_errors, v)
    /\ cur' = v
    /\ regions' = regs
    /\ pre' = buf[v]
    /\ pc' = "construct"
    /\ UNCHANGED <<buf, encoding, cmds_setting, display, ri, formatter, resolved,
                   ci, code, replacement, log, calls, returned, outcome, dialog>>

\* GofmtCommand.run: the whole buffer as one region.
GofmtCommand_run ==
    \E v \in Views :
        /\ is_go_source(v)
        /\ run_formatter(v, <<Region(0, size(buf[v]))>>)

\* run_formatter called with the regions of a selection.
FormatSelection ==
    \E v \in Views : \E regs \in Selections(buf[v]) : run_formatter(v, regs)

\* Line 257, Formatter.__init__: every command is resolved; the first
\* resolution that fails (failing = its index, 0: none) raises.
Formatter_init ==
    /\ pc = "construct"
    /\ UNCHANGED ui
    /\ \E failing \in 0..Len(cmds_setting) :
         /\ resolved' = ResolvedBefore(cmds_setting, failing)
         /\ IF ConstructionFails(failing)
            THEN /\ Raise("golangconfig error")
                 /\ UNCHANGED <<ri, formatter>>
            ELSE /\ formatter' =
                      [encoding |-> FormatterEncoding(encoding[cur]),
                       cmds |-> [i \in 1..Len(cmds_setting) |->
                                    Command(cmds_setting[i])]]
                 /\ ri' = 1
                 /\ IF regions = <<>>
                    THEN pc' = "done" /\ outcome' = "ok"
                    ELSE pc' = "format" /\ outcome' = outcome
                 /\ dialog' = dialog
    /\ UNCHANGED <<buf, encoding, cmds_setting, view_errors, display, attempts,
                   cur, regions, ci, code, replacement, pre, log, calls, returned>>

\* Formatter.format, lines 178-179: _clear_errors and the region's text.
format_begin ==
    /\ pc = "format"
    /\ UNCHANGED ui
    /\ status' = Cleared(status, cur)
    /\ marks' = Cleared(marks, cur)
    /\ code' = Str(substr(buf[cur], regions[ri]))
    /\ ci' = 1
    /\ pc' = "cmd"
    /\ UNCHANGED <<buf, encoding, cmds_setting, view_errors, panel, attempts, cur,
                   regions, ri, formatter, resolved, replacement, pre, log, calls,
                   returned, outcome, dialog>>

\* _show_error_panel: the panel is created and filled with the messages.
RECURSIVE JoinTexts(_)
JoinTexts_firstOnly(errors) == IF errors = <<>> THEN <<>> ELSE errors[1].text
JoinTexts(errors) ==
    IF errors = <<>> THEN <<>>
    ELSE IF Len(errors) = 1 THEN errors[1].text
    ELSE errors[1].text \o <<10>> \o JoinTexts(Tail(errors))

\* Formatter.format, lines 181-185, for one command: it is run; when it
\* failed its stderr is parsed, the errors are shown and FormatterError is
\* raised, which run_formatter catches (lines 274-275).
Command_run ==
    /\ pc = "cmd"
    /\ UNCHANGED ui
    /\ ci <= Len(formatter.cmds)
    /\ LET cmd == formatter.cmds[ci]
           stdin == Stdin(code)
       IN \E answer \in Answers(stdin) :
          LET stdout == answer.stdout
              stderr == answer.stderr
              return_code == answer.return_code
          IN
            /\ log' = Append(log, [region |-> ri, cmd |-> ci, name |-> cmd.name,
                                   args |-> cmd.args, path |-> cmd.path,
                                   argv |-> Argv(cmd), cwd |-> guess_cwd(cur),
                                   stdin |-> stdin, stdout |-> stdout,
                                   stderr |-> stderr, return_code |-> return_code])
            /\ IF CommandFailed(stderr, return_code)
               THEN /\ UNCHANGED <<ci, code>>
                    /\ \E p \in {parse_stderr(stderr, regions[ri], buf[cur], file_name(cur))} :
                          IF ~p.ok
                          THEN /\ Raise("UnicodeDecodeError")
                               /\ UNCHANGED <<view_errors, display>>
                          ELSE /\ status' = [status EXCEPT ![cur] =
                                      <<cmd.name, return_code>>]
                               /\ panel' = [exists |-> TRUE, text |-> JoinTexts(p.errors),
                                            hidden |-> panel.hidden]
                               /\ marks' = [marks EXCEPT ![cur] =
                                      [i \in 1..Len(p.errors) |-> p.errors[i].region]]
                               /\ view_errors' = [view_errors EXCEPT ![cur] = p.errors]
                               /\ outcome' = "FormatterError"
                               /\ pc' = "done"
                               /\ dialog' = dialog
               ELSE /\ code' = NextCode(code, stdout)
                    /\ ci' = ci + 1
                    /\ UNCHANGED <<view_errors, display, pc, outcome, dialog>>
    /\ UNCHANGED <<buf, encoding, cmds_setting, attempts, cur, regions, ri,
                   formatter, resolved, replacement, pre, calls, returned>>

\* Popen raises (the executable cannot be started): an unexpected exception.
Command_run_oserror ==
    /\ pc = "cmd"
    /\ UNCHANGED ui
    /\ ci <= Len(formatter.cmds)
    /\ Raise("OSError")
    /\ UNCHANGED <<buf, encoding, cmds_setting, view_errors, display, attempts, cur,
                   regions, ri, formatter, resolved, ci, code, replacement, pre, log,
                   calls, returned>>

\* Formatter.format, lines 186-187: the panel is hidden and the code decoded.
format_end ==
    /\ pc = "cmd"
    /\ UNCHANGED ui
    /\ ci > Len(formatter.cmds)
    /\ panel' = [panel EXCEPT !.hidden = TRUE]
    /\ LET d == decode(code, formatter.encoding)
       IN IF d.ok
          THEN /\ replacement' = d.v
               /\ returned' = Append(returned, [region |-> ri, text |-> d.v])
               /\ pc' = "replace"
               /\ UNCHANGED <<outcome, dialog>>
          ELSE /\ Raise(d.exc)
               /\ UNCHANGED <<replacement, returned>>
    /\ UNCHANGED <<buf, encoding, cmds_setting, view_errors, status, marks, attempts,
                   cur, regions, ri, formatter, resolved, ci, code, pre, log, calls>>

\* run_formatter, lines 266-267 and the end of the loop (lines 271-272).
replace_region ==
    /\ pc = "replace"
    /\ UNCHANGED ui
    /\ LET current == substr(buf[cur], regions[ri])
       IN IF MustReplace(current, replacement)
          THEN /\ buf' = [buf EXCEPT ![cur] = replace(buf[cur], regions[ri], replacement)]
               /\ calls' = Append(calls, [region |-> ri, old |-> current,
                                          new |-> replacement])
          ELSE UNCHANGED <<buf, calls>>
    /\ ri' = ri + 1
    /\ IF ri = Len(regions)
       THEN pc' = "done" /\ outcome' = "ok"
       ELSE pc' = "format" /\ outcome' = outcome
    /\ UNCHANGED <<encoding, cmds_setting, view_errors, display, attempts, cur,
                   regions, formatter, resolved, ci, code, replacement, pre, log,
                   returned, dialog>>

\* run_formatter and everything it calls run on the thread that called it:
\* Command.run waits in proc.communicate (line 104) and nothing is handed to
\* a thread or a timer except the viewport restore (line 272).  The editor
\* delivers the user's input only while no command is running.
EditAllowed_anytime == TRUE
EditAllowed == pc = "idle"

\* The user edits a buffer (here: the unsaved buffer gets the text back it
\* had before the formatter changed it).
UserEdit ==
    /\ EditAllowed
    /\ UNCHANGED ui
    /\ \E v \in {w \in Views : file_name(w) = None} : \E text \in Buffers(v) :
         /\ buf[v] # text
         /\ buf' = [buf EXCEPT ![v] = text]
    /\ UNCHANGED <<encoding, cmds_setting, view_errors, display, pc, attempts, cur,
                   regions, ri, formatter, resolved, ci, code, replacement, pre,
                   log, calls, returned, outcome, dialog>>

\* The user gives the unsaved buffer another syntax than Go.
SetSyntax ==
    /\ EditAllowed
    /\ \E v \in {w \in Views : file_name(w) = None} :
         /\ go_source[v]
         /\ go_source' = [go_source EXCEPT ![v] = FALSE]
    /\ UNCHANGED <<buf, encoding, cmds_setting, view_errors, display, pc, attempts,
                   cur, regions, ri, formatter, resolved, ci, code, replacement,
                   pre, log, calls, returned, outcome, dialog, hover, popup>>

\* What on_hover may be called with: the text at the start or at the end of
\* the buffer, or the gutter of the first line.
HoverEvents(text) ==
    { <<0, "HOVER_TEXT">>, <<Len(text), "HOVER_TEXT">>, <<0, "HOVER_GUTTER">> }

\* One ERROR_TEMPLATE.format(row=..., text=...) of the popup's html.
ERROR_TEMPLATE(row, text) == [row |-> row, text |-> text]

\* _show_errors_for_row: 'row_errors = [e for e in errors if e.row == row]'
row_errors_all(errors, row) == errors
row_errors(errors, row) == SelectSeq(errors, LAMBDA e : e.row = row)

\* _show_errors_for_row(view, row, point): the popup it shows, NoPopup when
\* it returns early.
show_errors_for_row(v, row, point) ==
    IF ~is_go_source(v) THEN NoPopup
    ELSE IF view_errors[v] = NoEntry \/ view_errors[v] = <<>> THEN NoPopup
    ELSE LET shown == row_errors(view_errors[v], row)
         IN IF shown = <<>> THEN NoPopup
            ELSE [shown |-> TRUE, location |-> point,
                  html |-> [i \in 1..Len(shown) |->
                              ERROR_TEMPLATE(shown[i].row + 1, shown[i].text)]]

\* GofmtListener.on_hover(view, point, hover_zone).
on_hover ==
    /\ pc = "idle"
    /\ \E v \in Views : \E ev \in HoverEvents(buf[v]) :
         LET point == ev[1]
             hover_zone == ev[2]
         IN /\ hover' = [view |-> v, point |-> point, zone |-> hover_zone]
            /\ popup' = IF hover_zone # "HOVER_TEXT" THEN NoPopup
                        ELSE show_errors_for_row(v, rowcol(buf[v], point)[1], point)
    /\ pc' = "hover"
    /\ UNCHANGED <<buf, encoding, cmds_setting, view_errors, display, attempts,
                   cur, regions, ri, formatter, resolved, ci, code, replacement,
                   pre, log, calls, returned, outcome, dialog, go_source>>

\* on_hover has returned and the mouse moves away: the popup is hidden
\* (sublime.HIDE_ON_MOUSE_MOVE_AWAY).
on_hover_return ==
    /\ pc = "hover"
    /\ pc' = "idle"
    /\ hover' = None
    /\ popup' = NoPopup
    /\ UNCHANGED <<buf, encoding, cmds_setting, view_errors, display, attempts,
                   cur, regions, ri, formatter, resolved, ci, code, replacement,
                   pre, log, calls, returned, outcome, dialog, go_source>>

\* run_formatter returns: its locals are gone.
return ==
    /\ pc = "done"
    /\ UNCHANGED ui
    /\ pc' = "idle"
    /\ cur' = None /\ regions' = <<>> /\ ri' = 0 /\ formatter' = None /\ ci' = 0
    /\ resolved' = <<>>
    /\ code' = None /\ replacement' = None /\ pre' = None
    /\ log' = <<>> /\ calls' = <<>> /\ returned' = <<>>
    /\ outcome' = None /\ dialog' = None
    /\ UNCHANGED <<buf, encoding, cmds_setting, view_errors, display, attempts>>

Next ==
    \/ GofmtCommand_run
    \/ FormatSelection
    \/ Formatter_init
    \/ format_begin
    \/ Command_run
    \/ Command_run_oserror
    \/ format_end
    \/ replace_region
    \/ return
    \/ UserEdit
    \/ SetSyntax
    \/ on_hover
    \/ on_hover_return

Spec == Init /\ [][Next]_vars

------------------------------------------------------------------------------
(* Properties.                                                              *)

\* The subprocesses of this call that worked on region r, in order.
LogOf(r) == SelectSeq(log, LAMBDA e : e.region = r)
Last(q) == q[Len(q)]
Running == pc \in {"construct", "format", "cmd", "replace"}
\* (row, col) is a position of the text.
InBounds(text, row, col) ==
    /\ row >= 0 /\ row < Rows(text)
    /\ col >= 0 /\ col <= RowLen(text, row)

\* C1: when a command of the pipeline fails while a region is formatted, the
\* buffer's text after the call equals its text before the call, also when
\* an earlier region of the same call was formatted before.
C1_FailureLeavesBufferUntouched ==
    (pc = "done" /\ outcome = "FormatterError") => buf[cur] = pre

\* C2: the commands run in the configured order; command k runs only after
\* every command before it returned exit code 0 with empty stderr, and in
\* that case it does run; a command that exits nonzero or writes to stderr
\* is the last one run, and format returns nothing for its region.
C2_PipelineStopsAtFirstFailure ==
    /\ \A i \in 1..Len(log) :
         LET e == log[i]
         IN /\ e.name = Head(cmds_setting[e.cmd])
            /\ IF i = 1 \/ log[i - 1].region # e.region
               THEN e.cmd = 1
               ELSE /\ e.cmd = log[i - 1].cmd + 1
                    /\ log[i - 1].stderr = <<>>
                    /\ log[i - 1].return_code = 0
            /\ (e.stderr # <<>> \/ e.return_code # 0) =>
                 /\ i = Len(log)
                 /\ pc = "done"
                 /\ outcome \in {"FormatterError", "Exception"}
                 /\ \A k \in 1..Len(returned) : returned[k].region # e.region
    /\ \A k \in 1..Len(returned) :
         Len(LogOf(returned[k].region)) = Len(cmds_setting)
    /\ pc = "cmd" => Len(LogOf(ri)) = ci - 1

\* C2 witness: the second command exited with code 0 but wrote to stderr,
\* and the call ended as a pipeline failure.
C2_Witness ==
    /\ pc = "done" /\ outcome = "FormatterError"
    /\ Len(log) = 2 /\ log[2].cmd = 2
    /\ log[2].return_code = 0 /\ log[2].stderr # <<>>
    /\ returned = <<>>

\* C3: the first command reads the region's text, every later command reads
\* the stdout of the command before it, and the text format returns is the
\* stdout of the last command.
C3_PipelineComposes ==
    /\ \A i \in 2..Len(log) :
         log[i].region = log[i - 1].region => log[i].stdin = log[i - 1].stdout
    /\ (pc \in {"cmd", "replace"} /\ LogOf(ri) # <<>>) =>
         LogOf(ri)[1].stdin = encode(substr(buf[cur], regions[ri]))
    /\ pc = "replace" =>
         /\ Len(LogOf(ri)) = Len(cmds_setting)
         /\ Len(LogOf(ri)) >= 1
         /\ encode(replacement) = Last(LogOf(ri)).stdout

\* C3 witness: a pipeline of two commands succeeded, the first one having
\* changed the text, and format returned the second one's stdout.
C3_Witness ==
    /\ pc = "replace"
    /\ Len(log) = 2
    /\ log[1].stdout # log[1].stdin
    /\ log[2].stdin = log[1].stdout
    /\ encode(replacement) = log[2].stdout
    /\ replacement # substr(buf[cur], regions[ri])

\* C4: a call of run_formatter on a view deletes the view's cache entry
\* first and leaves the other views' entries alone; until the call has ended
\* the view has no entry, and after it the entry is absent or holds the
\* diagnostics of this call's own failure.
C4_CacheClearedAtStart ==
    /\ [](Running => view_errors[cur] = NoEntry)
    /\ []((pc = "done" /\ outcome # "FormatterError") => view_errors[cur] = NoEntry)
    /\ []((pc = "done" /\ outcome = "FormatterError") =>
            view_errors[cur] =
                parse_stderr(Last(log).stderr, regions[ri], buf[cur], file_name(cur)).errors)
    /\ [][(pc = "idle" /\ pc' = "construct") => view_errors'[cur'] = NoEntry]_vars
    /\ [][\A w \in Views :
             (\/ pc = "idle" /\ pc' = "construct" /\ w # cur'
              \/ pc \in {"idle", "hover"} /\ pc' # "construct"
              \/ pc \notin {"idle", "hover"} /\ w # cur) =>
                view_errors'[w] = view_errors[w]]_vars

\* C4 witness: a call has started on a view that still shows the status and
\* the marks of an earlier failed call, and its cache entry is gone.
C4_Witness ==
    /\ pc = "construct"
    /\ status[cur] # <<>>
    /\ marks[cur] # <<>>
    /\ view_errors[cur] = NoEntry

\* C5: after a call that ended in a pipeline failure the cache holds at
\* least one diagnostic for the view, whatever the command wrote to stderr.
C5_FailureCachesADiagnostic ==
    (pc = "done" /\ outcome = "FormatterError") =>
        /\ view_errors[cur] # NoEntry
        /\ Len(view_errors[cur]) >= 1

\* The (row, col) pairs, 1-based, of the diagnostic lines of Diagnostics.
RawDiagnostics == << <<1, 5>>, <<1, 3>>, <<2, 3>>, <<12, 10>> >>

\* C6: a diagnostic line with raw (r, c) for a region starting at buffer
\* (R, C) is mapped to row R + (r - 1) and to column (c - 1) + C when r = 1,
\* c - 1 otherwise; (0,0) with 1:5 gives (0,4), (10,8) with 1:3 gives
\* (10,10) and (10,8) with 2:3 gives (11,2).
C6_CoordinateShift ==
    (pc = "done" /\ outcome = "FormatterError" /\ Last(log).stderr = Diagnostics) =>
        LET errors == view_errors[cur]
            origin == rowcol(buf[cur], regions[ri].a)
        IN /\ Len(errors) = Len(RawDiagnostics)
           /\ \A i \in 1..Len(RawDiagnostics) :
                LET r == RawDiagnostics[i][1]
                    c == RawDiagnostics[i][2]
                IN /\ errors[i].row = origin[1] + (r - 1)
                   /\ errors[i].col = IF r = 1 THEN (c - 1) + origin[2] ELSE c - 1
           /\ regions[ri].a = 0 => errors[1].row = 0 /\ errors[1].col = 4
           /\ (buf[cur] = DeepBuffer /\ regions[ri].a = 18) =>
                /\ origin = <<10, 8>>
                /\ errors[2].row = 10 /\ errors[2].col = 10
                /\ errors[3].row = 11 /\ errors[3].col = 2

\* C6 witness: the region starts at (10, 8) and the tool reported 1:3 and
\* 2:3, cached at (10, 10) and (11, 2).
C6_Witness ==
    /\ pc = "done" /\ outcome = "FormatterError"
    /\ Last(log).stderr = Diagnostics
    /\ buf[cur] = DeepBuffer /\ regions[ri].a = 18
    /\ view_errors[cur][2].row = 10 /\ view_errors[cur][2].col = 10
    /\ view_errors[cur][3].row = 11 /\ view_errors[cur][3].col = 2

\* C7: view.replace is called for a region exactly when the text format
\* returned differs from the region's current text; otherwise the buffer is
\* not touched.
C7_NoReplaceWhenUnchanged ==
    [][pc = "replace" =>
         IF substr(buf[cur], regions[ri]) = replacement
         THEN calls' = calls /\ buf' = buf
         ELSE /\ Len(calls') = Len(calls) + 1
              /\ Last(calls').region = ri
              /\ Last(calls').new = replacement
              /\ substr(buf'[cur], Region(regions[ri].a, regions[ri].a + Len(replacement)))
                     = replacement]_vars

\* C7 witness: a call formatted two regions, one came back unchanged and was
\* not replaced, the other was replaced.
C7_Witness ==
    /\ pc = "done" /\ outcome = "ok"
    /\ Len(returned) = 2
    /\ Len(calls) = 1

\* C8: with no command configured format returns the region's text, and
\* run_formatter replaces nothing, shows no error and caches nothing.
C8_EmptyPipelineIsNoOp ==
    (pc = "done" /\ cmds_setting = <<>> /\ regions # <<>>) =>
        /\ outcome = "ok"
        /\ dialog = None
        /\ Len(returned) = Len(regions)
        /\ calls = <<>>
        /\ buf[cur] = pre
        /\ view_errors[cur] = NoEntry

\* C9: every subprocess is started with the resolved executable followed by
\* the command's configured arguments, in order.
C9_ArgumentsArePassed ==
    \A i \in 1..Len(log) : log[i].argv = <<log[i].path>> \o log[i].args

\* C10: every cached diagnostic has a row and a column inside the text the
\* buffer had before the call.
C10_DiagnosticsInBounds ==
    (pc = "done" /\ outcome = "FormatterError") =>
        \A i \in 1..Len(view_errors[cur]) :
            InBounds(pre, view_errors[cur][i].row, view_errors[cur][i].col)

\* t occurs in s.
Contains(s, t) ==
    \E i \in 0..(Len(s) - Len(t)) : SubSeq(s, i + 1, i + Len(t)) = t

\* C11: when the stderr of the failing command holds '<standard input>', the
\* text shown in the panel does not hold it any more; it holds the base name
\* of the buffer's file, or '<anonymous buffer>' when the buffer has no file.
C11_PlaceholderReplaced ==
    (/\ pc = "done" /\ outcome = "FormatterError"
     /\ Contains(Last(log).stderr, StandardInput)) =>
        /\ panel.exists
        /\ ~Contains(panel.text, StandardInput)
        /\ Contains(panel.text,
                    IF file_name(cur) # None THEN basename(file_name(cur))
                    ELSE AnonymousBuffer)

\* C12: in a call with several regions every region is formatted from the
\* text it had when run_formatter was called, and that text is what is
\* replaced: an earlier replacement of another length does not move what a
\* later region selects.
C12_RegionsReadSnapshot ==
    /\ \A i \in 1..Len(log) :
         log[i].cmd = 1 =>
            log[i].stdin = encode(substr(pre, regions[log[i].region]))
    /\ \A k \in 1..Len(calls) :
         calls[k].old = substr(pre, regions[calls[k].region])

\* C13: when the resolution of any command of the pipeline fails, the first
\* or a later one, the call ends there: no subprocess was started, nothing
\* was replaced and the error is shown in a message box.  A subprocess is
\* started only in a call that resolved every command.
C13_ResolutionFailureAborts ==
    /\ (pc \in {"format", "cmd", "replace", "done"}
          /\ Len(resolved) < Len(cmds_setting)) =>
            /\ pc = "done"
            /\ outcome = "Exception"
            /\ dialog = "golangconfig error"
            /\ log = <<>>
            /\ calls = <<>>
            /\ returned = <<>>
            /\ buf[cur] = pre
    /\ (pc = "done" /\ dialog = "golangconfig error") =>
            /\ Len(resolved) < Len(cmds_setting)
            /\ formatter = None
    /\ log # <<>> => Len(resolved) = Len(cmds_setting)

\* C13 witness: the first command was resolved, the second was not.
C13_Witness ==
    /\ pc = "done"
    /\ dialog = "golangconfig error"
    /\ Len(cmds_setting) = 2
    /\ resolved = <<Head(cmds_setting[1])>>
    /\ log = <<>> /\ calls = <<>>

\* C14: after a pipeline failure the status names the command that failed,
\* which is the first of the pipeline to fail, and its exit code; the panel
\* holds the message of every parsed diagnostic, one per line and in order;
\* and there is one mark per diagnostic, from the buffer position of its
\* (row, col) to the end of the line of that position.
C14_DisplaysAgreeWithFailure ==
    (pc = "done" /\ outcome = "FormatterError") =>
        LET f == Last(log)
            errors == view_errors[cur]
            text == buf[cur]
        IN /\ f.stderr # <<>> \/ f.return_code # 0
           /\ \A i \in 1..(Len(log) - 1) :
                log[i].region = f.region =>
                    log[i].stderr = <<>> /\ log[i].return_code = 0
           /\ status[cur] = <<Head(cmds_setting[f.cmd]), f.return_code>>
           /\ panel.exists
           /\ IF errors = <<>> THEN panel.text = <<>>
              ELSE splitlines(panel.text) = [i \in 1..Len(errors) |-> errors[i].text]
           /\ f.stderr = Diagnostics => panel.text = <<120, 10, 121, 10, 122, 10, 119>>
           /\ Len(marks[cur]) = Len(errors)
           /\ \A i \in 1..Len(errors) :
                LET e == errors[i]
                    m == marks[cur][i]
                IN /\ m.a = text_point(text, e.row, e.col)
                   /\ m.b = line_end(text, m.a)
                   /\ m.a <= m.b
                   /\ \A q \in (m.a + 1)..m.b : text[q] # 10
                   /\ m.b = Len(text) \/ text[m.b + 1] = 10
                   /\ InBounds(text, e.row, e.col) =>
                        /\ rowcol(text, m.a) = <<e.row, e.col>>
                        /\ m.b = RowStart(text, e.row) + RowLen(text, e.row)

\* C14 witness: the second command of a pipeline failed with exit code 2 and
\* four diagnostics, of which the third lies inside the buffer.
C14_Witness ==
    /\ pc = "done" /\ outcome = "FormatterError"
    /\ Len(log) = 2 /\ log[2].cmd = 2
    /\ status[cur] = <<"gofmt", 2>>
    /\ panel.text = <<120, 10, 121, 10, 122, 10, 119>>
    /\ Len(marks[cur]) = 4
    /\ InBounds(buf[cur], view_errors[cur][3].row, view_errors[cur][3].col)
    /\ marks[cur][3].a < marks[cur][3].b

\* The text parse_stderr splits into lines: the decoded stderr, the
\* placeholder replaced when the buffer has a file.
ParsedText(stderr, v) ==
    IF file_name(v) # None
    THEN str_replace(decode_utf8(stderr).v, StandardInput, basename(file_name(v)))
    ELSE decode_utf8(stderr).v

\* The line has the form '<anything>:<row>:<col>:<whitespace><message>'.
IsDiagnosticLine(l) ==
    LET colons == {x \in 1..Len(l) : l[x] = 58}
    IN \E i \in colons : \E j \in {x \in colons : x > i + 1} :
          /\ \A q \in (i + 1)..(j - 1) : IsDigit(l[q])
          /\ \E k \in {x \in colons : x > j + 1 /\ x < Len(l)} :
                /\ \A q \in (j + 1)..(k - 1) : IsDigit(l[q])
                /\ IsSpace(l[k + 1])

\* C15: parse_stderr returns one diagnostic for every line of stderr of the
\* form '<anything>:<row>:<col>:<whitespace><message>', in the order of the
\* lines, carrying the line's message; the other lines give no diagnostic and
\* no mark and raise no error.
C15_OneDiagnosticPerMatchingLine ==
    (pc = "done" /\ log # <<>> /\ CommandFailed(Last(log).stderr, Last(log).return_code)
       /\ decode_utf8(Last(log).stderr).ok) =>
        LET lines == splitlines(ParsedText(Last(log).stderr, cur))
            matching == SelectSeq(lines, IsDiagnosticLine)
            errors == view_errors[cur]
        IN /\ outcome = "FormatterError"
           /\ dialog = None
           /\ errors # NoEntry
           /\ Len(errors) = Len(matching)
           /\ Len(marks[cur]) = Len(matching)
           /\ \A i \in 1..Len(matching) :
                LET l == matching[i]
                    t == errors[i].text
                IN /\ Len(t) < Len(l)
                   /\ SubSeq(l, Len(l) - Len(t) + 1, Len(l)) = t
                   /\ IsSpace(l[Len(l) - Len(t)])
                   /\ t # <<>> => ~IsSpace(t[1])
           /\ Last(log).stderr = Diagnostics =>
                [i \in 1..Len(errors) |-> errors[i].text] =
                    << <<120>>, <<121>>, <<122>>, <<119>> >>
           /\ Last(log).stderr = BannerOnly => errors = <<>>

\* C15 witness: stderr had five lines, the first of them a banner, and four
\* diagnostics were returned.
C15_Witness ==
    /\ pc = "done" /\ outcome = "FormatterError"
    /\ Len(splitlines(ParsedText(Last(log).stderr, cur))) = 5
    /\ ~IsDiagnosticLine(splitlines(ParsedText(Last(log).stderr, cur))[1])
    /\ Len(view_errors[cur]) = 4
    /\ Len(marks[cur]) = 4

\* C16: a call of run_formatter is not interleaved with anything: while it
\* runs, a buffer changes only by the call's own view.replace and no other
\* call starts; the text of a region is, when the region is replaced, still
\* the text that was read and given to the first command.
C16_AttemptIsAtomic ==
    /\ [][pc # "idle" =>
            /\ attempts' = attempts
            /\ pc' # "idle" => cur' = cur /\ regions' = regions /\ pre' = pre
            /\ \A v \in Views :
                 buf'[v] # buf[v] =>
                    /\ pc = "replace" /\ v = cur
                    /\ buf'[v] = replace(buf[v], regions[ri], replacement)]_vars
    /\ [](pc = "replace" =>
            /\ LogOf(ri) # <<>>
            /\ decode_utf8(LogOf(ri)[1].stdin).v = substr(buf[cur], regions[ri]))
    /\ [](\A k \in 1..Len(calls) :
            decode_utf8(LogOf(calls[k].region)[1].stdin).v = calls[k].old)

\* C16 witness: the second call, on the unsaved buffer, has read a region and
\* run the pipeline on it and is about to replace it with another text.
C16_Witness ==
    /\ pc = "replace"
    /\ attempts = 2
    /\ file_name(cur) = None
    /\ pre \in Buffers(cur)
    /\ Len(LogOf(ri)) = 2
    /\ replacement # substr(buf[cur], regions[ri])

\* The commands of the region being formatted all ran and none failed.
PipelinePassed ==
    /\ Len(LogOf(ri)) = Len(cmds_setting)
    /\ \A i \in 1..Len(LogOf(ri)) :
         ~CommandFailed(LogOf(ri)[i].stderr, LogOf(ri)[i].return_code)

\* C17: a failure that is not a pipeline failure (a resolution error, a
\* subprocess that cannot be started, an output that cannot be decoded) ends
\* the call with the error shown in a message box; the call always returns,
\* and a message box is shown for nothing else.
C17_UnexpectedErrorsAreShown ==
    /\ pc # "done" => outcome = None /\ dialog = None
    /\ pc = "done" =>
         /\ outcome \in {"ok", "FormatterError", "Exception"}
         /\ ENABLED return
         /\ outcome = "Exception" <=> dialog # None
         /\ outcome = "ok" => ri = Len(regions) + 1
         /\ outcome = "FormatterError" =>
                /\ CommandFailed(Last(log).stderr, Last(log).return_code)
                /\ decode_utf8(Last(log).stderr).ok
         /\ Len(resolved) < Len(cmds_setting) => dialog = "golangconfig error"
         /\ (Len(resolved) = Len(cmds_setting) /\ ri <= Len(regions)) =>
                IF LogOf(ri) # <<>>
                   /\ CommandFailed(Last(log).stderr, Last(log).return_code)
                THEN ~decode_utf8(Last(log).stderr).ok => dialog = "UnicodeDecodeError"
                ELSE IF PipelinePassed
                THEN dialog \in {"UnicodeDecodeError", "AttributeError", "LookupError"}
                ELSE dialog = "OSError"

\* C17 witness: the second region's first command could not be started
\* after the first region had been replaced.
C17_Witness ==
    /\ pc = "done" /\ outcome = "Exception"
    /\ dialog = "OSError"
    /\ ri = 2
    /\ calls # <<>>

\* C18: format clears the view's status and marks before it runs a command,
\* and they stay cleared while the commands succeed; after a call in which
\* every command succeeded for every region the view has no status and no
\* marks, the panel is hidden and the cache has no entry for the view.
C18_SuccessShowsNoErrors ==
    /\ pc \in {"cmd", "replace"} =>
         /\ status[cur] = <<>>
         /\ marks[cur] = <<>>
    /\ (pc \in {"replace", "done"} /\ ri >= 1 /\ ri <= Len(regions)
          /\ PipelinePassed) =>
         /\ status[cur] = <<>>
         /\ marks[cur] = <<>>
         /\ panel.hidden
         /\ view_errors[cur] = NoEntry
    /\ (pc = "done" /\ outcome = "ok") =>
         /\ \A r \in 1..Len(regions) : \E k \in 1..Len(returned) : returned[k].region = r
         /\ status[cur] = <<>>
         /\ marks[cur] = <<>>
         /\ panel.hidden
         /\ view_errors[cur] = NoEntry

\* C18 witness: the second call on a view succeeded after the first one had
\* failed and filled the panel.
C18_Witness ==
    /\ pc = "done" /\ outcome = "ok"
    /\ attempts = 2
    /\ panel.exists /\ panel.text # <<>>
    /\ \A v \in Views \ {cur} : status[v] = <<>>

\* C19: between calls, whatever the calls' outcomes were, a view shows marks
\* exactly when the cache holds diagnostics for it, the marks are the spans
\* of the cached diagnostics, and it shows a status exactly when the cache
\* has an entry for it: nothing of an earlier failed call is shown once a
\* later call has deleted the entry.
C19_DisplayMatchesCache ==
    pc = "idle" =>
        \A v \in Views :
            /\ marks[v] # <<>> <=>
                 (view_errors[v] # NoEntry /\ view_errors[v] # <<>>)
            /\ view_errors[v] # NoEntry =>
                 marks[v] = [i \in 1..Len(view_errors[v]) |-> view_errors[v][i].region]
            /\ status[v] # <<>> <=> view_errors[v] # NoEntry

\* C20: a hover over the text of row r shows a popup only if the view is Go
\* source and the cache holds a diagnostic of row r for it; the popup lists
\* exactly the cached diagnostics of row r, in order; the cache entry read is
\* the one the most recent call for the view wrote; and a hover changes
\* neither the cache nor a buffer.
C20_HoverShowsCachedRow ==
    /\ [](pc = "hover" =>
            LET v == hover.view
                r == rowcol(buf[v], hover.point)[1]
                cached == IF view_errors[v] = NoEntry THEN <<>> ELSE view_errors[v]
                at == {i \in 1..Len(cached) : cached[i].row = r}
            IN /\ popup.shown <=>
                    (is_go_source(v) /\ hover.zone = "HOVER_TEXT" /\ at # {})
               /\ popup.shown =>
                    /\ popup.location = hover.point
                    /\ Len(popup.html) = Cardinality(at)
                    /\ \A k \in 1..Len(popup.html) :
                         \E i \in at :
                            /\ Cardinality({j \in at : j <= i}) = k
                            /\ popup.html[k] = ERROR_TEMPLATE(r + 1, cached[i].text))
    /\ [](pc # "hover" => ~popup.shown)
    /\ [][(pc = "hover" \/ pc' = "hover") =>
            /\ view_errors' = view_errors
            /\ buf' = buf
            /\ display' = display]_vars
    /\ [][\A v \in Views :
            IF view_errors'[v] = NoEntry
            THEN view_errors[v] # NoEntry =>
                    pc = "idle" /\ pc' = "construct" /\ cur' = v
            ELSE IF view_errors[v] # NoEntry
            THEN view_errors'[v] = view_errors[v]
            ELSE /\ pc = "cmd" /\ pc' = "done" /\ cur = v
                 /\ outcome' = "FormatterError"]_vars

\* C20 witness: the cache holds four diagnostics for the view, two of them
\* of the hovered row, and the popup shows these two.
C20_Witness ==
    /\ pc = "hover"
    /\ popup.shown
    /\ Len(view_errors[hover.view]) = 4
    /\ Len(popup.html) = 2
    /\ popup.html[1].text # popup.html[2].text

====
